---- MODULE Spec2Model ----
(***************************************************************************)
(* A model of the todo list's indexed record store (src/src/main.rs).      *)
(*                                                                         *)
(* The store is a header-less CSV file.  Files are modelled as byte        *)
(* sequences held by inodes, a directory maps the two names the program    *)
(* uses (the store path and its sibling aux.csv) to inodes, and every      *)
(* invocation of the program is a process that walks through main():       *)
(* check_file_get_last, then the subcommand.  The csv writer buffers what  *)
(* is serialized and writes it to its file when the buffer is full or the  *)
(* writer is dropped; the csv reader reads its file in chunks.             *)
(*                                                                         *)
(* Spec is the program used as intended: one invocation at a time on a     *)
(* store it made itself.  The other specifications put it into the         *)
(* situations its description speaks of: a process that is killed          *)
(* (SpecCrash), pairs of commands (SpecPair), I/O calls that fail          *)
(* (SpecFault), a store edited by hand (SpecHand), a file aux.csv that is  *)
(* already there (SpecStale), two invocations at once (SpecRace), and a    *)
(* store that is itself named aux.csv (SpecAux).                           *)
(***************************************************************************)
EXTENDS Integers, Sequences, FiniteSets, TLC

\* ------------------------------------------------------------------ bounds

\* Records a store may hold (add is refused by the model beyond it).
MaxRecords == 3

\* Texts one add command may carry.
MaxAdd == 2

\* Indexes one rm/done/undo command may name.
MaxReq == 2

\* Capacity, in bytes, of the csv reader's and the csv writer's buffer
\* (8 KiB in the csv crate, scaled to the size of the model's files).
BufCap == 16

\* The task texts of the model: strings without a delimiter, a quote or a line
\* break, which the csv writer emits verbatim (QuoteStyle::Necessary).
Texts == { <<"a">>, <<"b", "c">> }

\* The processes (invocations of the program that may be alive together).
Procs == {1, 2}

\* Index arguments a user may give: present ones, 0, and one past the bound.
IndexArgs == 0 .. (MaxRecords + 1)

\* ------------------------------------------------------------- the record

\* u32's Display: the decimal digits of n.
Digit == <<"0", "1", "2", "3", "4", "5", "6", "7", "8", "9">>

RECURSIVE ToDigits(_)
ToDigits(n) ==
    IF n < 10 THEN << Digit[n + 1] >>
    ELSE ToDigits(n \div 10) \o << Digit[(n % 10) + 1] >>

IsDigit(b) == \E d \in 1 .. 10 : Digit[d] = b

DigitVal(b) == (CHOOSE d \in 1 .. 10 : Digit[d] = b) - 1

\* str::parse::<u32>: the value of a non-empty digit string, -1 for anything else.
RECURSIVE ParseDigits(_)
ParseDigits(s) ==
    IF Len(s) = 1 THEN DigitVal(s[1])
    ELSE 10 * ParseDigits(SubSeq(s, 1, Len(s) - 1)) + DigitVal(s[Len(s)])

ParseU32(s) ==
    IF s # << >> /\ \A k \in 1 .. Len(s) : IsDigit(s[k]) THEN ParseDigits(s) ELSE -1

TrueBytes == <<"t", "r", "u", "e">>
FalseBytes == <<"f", "a", "l", "s", "e">>

\* struct Record { index, action, done }.
Record(i, a, d) == [index |-> i, action |-> a, done |-> d]

\* writer.serialize(record): the three fields, comma separated, and a line feed.
Serialize(r) ==
    ToDigits(r.index) \o <<",">> \o r.action \o <<",">>
        \o (IF r.done THEN TrueBytes ELSE FalseBytes) \o <<"\n">>

\* The positions of byte b in s, in order.
Positions(s, b) == { k \in 1 .. Len(s) : s[k] = b }

\* The fields of one line (no line feed in it): split at the commas.
Fields(line) ==
    LET cs == Positions(line, ",")
        n == Cardinality(cs)
        \* the k-th comma's position (0 before the first field, Len+1 after the last)
        at(k) == IF k = 0 THEN 0
                 ELSE IF k = n + 1 THEN Len(line) + 1
                 ELSE CHOOSE c \in cs : Cardinality({ d \in cs : d < c }) = k - 1
    IN [ k \in 1 .. (n + 1) |-> SubSeq(line, at(k - 1) + 1, at(k) - 1) ]

\* rdr.deserialize() of one line: whether it decodes into a Record.
Decodes(line) ==
    LET fs == Fields(line)
    IN /\ Len(fs) = 3
       /\ ParseU32(fs[1]) >= 0
       /\ fs[3] \in {TrueBytes, FalseBytes}

\* The Record a decodable line holds.
Deserialize(line) ==
    LET fs == Fields(line)
    IN Record(ParseU32(fs[1]), fs[2], fs[3] = TrueBytes)

\* The lines of a file's content: what precedes each line feed, and what follows
\* the last one; the csv reader skips the empty ones.
Lines(data) ==
    LET nl == Positions(data, "\n")
        n == Cardinality(nl)
        at(k) == IF k = 0 THEN 0
                 ELSE IF k = n + 1 THEN Len(data) + 1
                 ELSE CHOOSE c \in nl : Cardinality({ d \in nl : d < c }) = k - 1
        all == [ k \in 1 .. (n + 1) |-> SubSeq(data, at(k - 1) + 1, at(k) - 1) ]
    IN SelectSeq(all, LAMBDA l : l # << >>)

\* Whether every line of the content decodes.
WellFormed(data) == \A k \in 1 .. Len(Lines(data)) : Decodes(Lines(data)[k])

\* The records of a well-formed content, in file order.
Records(data) == [ k \in 1 .. Len(Lines(data)) |-> Deserialize(Lines(data)[k]) ]

\* --------------------------------------------------------------- commands

\* One parsed command line (enum Commands, and no subcommand at all: "list").
Cmd(op, names, indexes, all) ==
    [op |-> op, names |-> names, indexes |-> indexes, all |-> all]

NameLists == UNION { [1 .. n -> Texts] : n \in 0 .. MaxAdd }

IndexSets == { S \in SUBSET IndexArgs : Cardinality(S) <= MaxReq }

ListCmd == Cmd("list", << >>, {}, FALSE)

Commands ==
    {ListCmd, Cmd("test", << >>, {}, FALSE), Cmd("reset", << >>, {}, FALSE)}
        \cup { Cmd("add", ns, {}, FALSE) : ns \in NameLists }
        \cup { Cmd("rm", << >>, S, FALSE) : S \in IndexSets }
        \cup { Cmd(op, << >>, S, a) : op \in {"done", "undo"}, S \in IndexSets, a \in BOOLEAN }

\* ------------------------------------------------------------------ state

Names == {"todo_list.csv", "aux.csv"}

\* Inodes the file system can hold at once.
MaxInodes == 4

Inodes == 1 .. MaxInodes

\* Inode numbers only name files.  The model numbers them so that the file a
\* name refers to always carries that name's number; a file that lost its name
\* and is still open somewhere carries one of the other numbers.
InodeOf(name) == IF name = "todo_list.csv" THEN 1 ELSE 2

VARIABLES
    path,        \* the store's file name (cli.file, or $HOME/todo_list.csv)
    dir,         \* the directory: file name -> inode, 0 when there is no such file
    files,       \* inode -> content (bytes); << >> for an inode not in use
    pc,          \* per process: where it is in main()
    cmd,         \* per process: the command line of its current (or last) run
    result,      \* per process: what its last run returned
    last_index,  \* per process: what check_file_get_last returned
    loc,         \* per process: the locals of add_records / file_map
    rdr,         \* per process: its csv reader
    wtr,         \* per process: its csv writer
    pre,         \* per process: the store's content when its current run started
    hist,        \* per process: the run before, when the current one pairs with it
    died         \* per process: the statement a killed run was about to execute,
                 \* or the step of the run at which an I/O call failed

vars == <<path, dir, files, pc, cmd, result, last_index, loc, rdr, wtr, pre, hist, died>>

NoReader == [open |-> FALSE, ino |-> 0, pos |-> 0, buf |-> << >>, eof |-> FALSE]
NoWriter == [open |-> FALSE, ino |-> 0, pos |-> 0, buf |-> << >>, append |-> FALSE]
NoLocals == [i |-> 0, last |-> 0, n |-> 0, indexes |-> {}, all |-> FALSE, f |-> "none"]
NoHist == [valid |-> FALSE, cmd |-> ListCmd, changed |-> FALSE, pre |-> << >>]

\* The content of the file of that name, << >> when there is none.
Content(d, fl, name) == IF d[name] = 0 THEN << >> ELSE fl[d[name]]

\* The inodes a name or an open handle refers to.
Referenced(d, r, w) ==
    ({ d[n] : n \in Names }
        \cup { r[p].ino : p \in Procs } \cup { w[p].ino : p \in Procs }) \ {0}

\* An inode no name and no handle refers to is gone.
Reclaim(fl, d, r, w) ==
    [ i \in Inodes |-> IF i \in Referenced(d, r, w) THEN fl[i] ELSE << >> ]

\* The number an open file gets when it loses its name.
FreshInode(d, r, w) ==
    LET free == { i \in Inodes \ Referenced(d, r, w) : \A n \in Names : i # InodeOf(n) }
    IN CHOOSE i \in free : \A j \in free : i <= j

Init ==
    /\ path = "todo_list.csv"
    /\ dir \in { [ n \in Names |-> 0 ],
                 [ n \in Names |-> IF n = "todo_list.csv" THEN InodeOf(n) ELSE 0 ] }
    /\ files = [ i \in Inodes |-> << >> ]
    /\ pc = [ p \in Procs |-> "idle" ]
    /\ cmd = [ p \in Procs |-> ListCmd ]
    /\ result = [ p \in Procs |-> "none" ]
    /\ last_index = [ p \in Procs |-> 0 ]
    /\ loc = [ p \in Procs |-> NoLocals ]
    /\ rdr = [ p \in Procs |-> NoReader ]
    /\ wtr = [ p \in Procs |-> NoWriter ]
    /\ pre = [ p \in Procs |-> << >> ]
    /\ hist = [ p \in Procs |-> NoHist ]
    /\ died = [ p \in Procs |-> "none" ]

\* ------------------------------------------------- the csv writer and reader

\* write(2) of bytes at offset pos (0-based) of a file: what it covers is
\* replaced, what lies beyond it stays.
WriteAt(data, pos, bytes) ==
    SubSeq(data, 1, pos) \o bytes \o SubSeq(data, pos + Len(bytes) + 1, Len(data))

\* Writer::flush: the buffer goes to the writer's file, at the end of the file
\* when it was opened with append(true) and at the handle's offset otherwise.
Flush(w, fl) ==
    LET at == IF w.append THEN Len(fl[w.ino]) ELSE w.pos
    IN [w |-> [w EXCEPT !.buf = << >>, !.pos = at + Len(w.buf)],
        files |-> IF w.buf = << >> THEN fl
                  ELSE [fl EXCEPT ![w.ino] = WriteAt(@, at, w.buf)]]

\* Writer::serialize: the bytes go to the buffer; whenever the buffer is full it
\* is flushed to the file and the rest follows.
RECURSIVE WriterPut(_, _, _)
WriterPut(w, fl, bytes) ==
    IF Len(w.buf) + Len(bytes) <= BufCap
    THEN [w |-> [w EXCEPT !.buf = @ \o bytes], files |-> fl]
    ELSE LET k == BufCap - Len(w.buf)
             full == Flush([w EXCEPT !.buf = @ \o SubSeq(bytes, 1, k)], fl)
         IN WriterPut(full.w, full.files, SubSeq(bytes, k + 1, Len(bytes)))

\* The reader has a whole line to hand out: one ended by a line feed, or what is
\* left in front of the end of the file.
HasLine(r) == Positions(r.buf, "\n") # {} \/ (r.eof /\ r.buf # << >>)

\* The reader is exhausted: the iterator of rdr.deserialize() ends.
AtEnd(r) == r.eof /\ r.buf = << >>

\* The next line of the reader's buffer, and the reader after handing it out.
NextLine(r) ==
    LET nl == Positions(r.buf, "\n")
        e == IF nl = {} THEN Len(r.buf) + 1
             ELSE CHOOSE c \in nl : \A d \in nl : c <= d
    IN [line |-> SubSeq(r.buf, 1, e - 1),
        rdr |-> [r EXCEPT !.buf = SubSeq(@, e + 1, Len(@))]]

\* read(2) into the reader's buffer: up to BufCap bytes from the handle's
\* offset; none means the end of the file.
Fill(r, fl) ==
    LET data == fl[r.ino]
        got == SubSeq(data, r.pos + 1,
                      IF r.pos + BufCap < Len(data) THEN r.pos + BufCap ELSE Len(data))
    IN [r EXCEPT !.buf = @ \o got, !.pos = @ + Len(got), !.eof = (got = << >>)]

\* ---------------------------------------------------------------- main()

Store == Content(dir, files, path)

\* aux: the store's path with its last component replaced by aux.csv.
AuxPath(pth) == "aux.csv"

\* A mutant of Exists: the store is never found.
Exists_Never(d, pth) == FALSE

\* path.exists().
Exists(d, pth) == d[pth] # 0

\* A mutant of FirstBadLine: the expected counter starts at 0.
FirstBadLine_ZeroBased(data) ==
    LET ls == Lines(data)
        bad == { k \in 1 .. Len(ls) : ~Decodes(ls[k]) \/ Deserialize(ls[k]).index # k - 1 }
    IN IF bad = {} THEN 0 ELSE CHOOSE k \in bad : \A j \in bad : k <= j

\* The first line of the content at which check_file_get_last stops with an
\* error, 0 when there is none.
FirstBadLine(data) ==
    LET ls == Lines(data)
        bad == { k \in 1 .. Len(ls) : ~Decodes(ls[k]) \/ Deserialize(ls[k]).index # k }
    IN IF bad = {} THEN 0 ELSE CHOOSE k \in bad : \A j \in bad : k <= j

\* A mutant of CheckResult: the indexes are not compared with the counter.
CheckResult_CsvOnly(data) == IF WellFormed(data) THEN "ok" ELSE "err_csv"

\* What check_file_get_last returns for an existing file and, when it is Ok, the
\* value: the number of records plus one.
CheckResult(data) ==
    LET k == FirstBadLine(data)
    IN IF k = 0 THEN "ok"
       ELSE IF ~Decodes(Lines(data)[k]) THEN "err_csv" ELSE "err_index"

\* The program is started with command line c; h is what is remembered of the
\* run before.
Launch(p, c, h) ==
    /\ c.op = "add" => Len(Lines(Store)) + Len(c.names) <= MaxRecords
    /\ pc' = [pc EXCEPT ![p] = "check"]
    /\ cmd' = [cmd EXCEPT ![p] = c]
    /\ result' = [result EXCEPT ![p] = "none"]
    /\ pre' = [pre EXCEPT ![p] = Store]
    /\ hist' = [hist EXCEPT ![p] = h]
    /\ last_index' = [last_index EXCEPT ![p] = 0]
    /\ died' = [died EXCEPT ![p] = "none"]
    /\ UNCHANGED <<path, dir, files, loc, rdr, wtr>>

\* A run is started.
Start(p, c) ==
    /\ pc[p] = "idle"
    /\ Launch(p, c, NoHist)

\* The two runs pair: the later one is checked against the earlier one (done
\* and then done or undo, or undo twice, of the same index set, given without
\* -a; any run after a reset).
Paired(c1, c2) ==
    \/ /\ c1.op \in {"done", "undo"} /\ c2.op \in {"done", "undo"}
       /\ c1.op = "done" \/ c2.op = "undo"
       /\ c1.indexes = c2.indexes /\ ~c1.all /\ ~c2.all
    \/ c1.op = "reset"

\* A run that returned Ok is followed at once by a run that pairs with it.  Of
\* the earlier run its command is remembered, whether it changed the store, and,
\* when an undo follows a done, the store it started from.
Again(p, c) ==
    /\ pc[p] = "done"
    /\ result[p] = "ok"
    /\ Paired(cmd[p], c)
    /\ Launch(p, c, [valid |-> TRUE, cmd |-> cmd[p], changed |-> (Store # pre[p]),
                     pre |-> IF cmd[p].op = "done" /\ c.op = "undo" THEN pre[p] ELSE << >>])

\* The process is over; nothing of it is remembered.
main_exit(p) ==
    /\ pc[p] = "done"
    /\ pc' = [pc EXCEPT ![p] = "idle"]
    /\ cmd' = [cmd EXCEPT ![p] = ListCmd]
    /\ result' = [result EXCEPT ![p] = "none"]
    /\ last_index' = [last_index EXCEPT ![p] = 0]
    /\ pre' = [pre EXCEPT ![p] = << >>]
    /\ hist' = [hist EXCEPT ![p] = NoHist]
    /\ loc' = [loc EXCEPT ![p] = NoLocals]
    /\ died' = [died EXCEPT ![p] = "none"]
    /\ UNCHANGED <<path, dir, files, rdr, wtr>>

\* Mutants: done ignores its indexes, undo passes done's transform, reset
\* selects by its index set.
mark_records_All(c) == [indexes |-> c.indexes, all |-> TRUE, f |-> "mark"]
unmark_records_Marks(c) == [indexes |-> c.indexes, all |-> c.all, f |-> "mark"]
reset_records_ByIndex(c) == [indexes |-> {1}, all |-> FALSE, f |-> "drop"]

\* The arguments with which each subcommand calls file_map.
rm_records(c) == [indexes |-> c.indexes, all |-> FALSE, f |-> "drop"]
mark_records(c) == [indexes |-> c.indexes, all |-> c.all, f |-> "mark"]
unmark_records(c) == [indexes |-> c.indexes, all |-> c.all, f |-> "unmark"]
reset_records(c) == [indexes |-> {1}, all |-> TRUE, f |-> "drop"]

\* A mutant of Transform: done and undo flip the flag.
Transform_Toggle(f, i, r) ==
    IF f \in {"mark", "unmark"} THEN { Record(i, r.action, ~r.done) } ELSE {}

\* The transform f(i, record) of each subcommand: the set holding the record it
\* returns, empty for None.
Transform(f, i, r) ==
    CASE f = "mark" -> { Record(i, r.action, TRUE) }
      [] f = "unmark" -> { Record(i, r.action, FALSE) }
      [] OTHER -> {}

\* main() after the check: the locals and the place the subcommand starts at.
Dispatch(c, last) ==
    LET args == CASE c.op = "rm" -> rm_records(c)
                  [] c.op = "done" -> mark_records(c)
                  [] c.op = "undo" -> unmark_records(c)
                  [] c.op = "reset" -> reset_records(c)
                  [] OTHER -> [indexes |-> {}, all |-> FALSE, f |-> "none"]
    IN [pc |-> CASE c.op = "list" -> "list"
                 [] c.op = "add" -> "add_open"
                 [] c.op = "test" -> "exit"
                 [] OTHER -> "fm_open_r",
        loc |-> [i |-> 0, last |-> last, n |-> 1,
                 indexes |-> args.indexes, all |-> args.all, f |-> args.f]]

\* check_file_get_last: a missing file is created empty and the next index is 1;
\* an existing one is read, and its indexes must count 1, 2, ...
check_file_get_last(p) ==
    /\ pc[p] = "check"
    /\ IF ~Exists(dir, path)
       THEN /\ dir' = [dir EXCEPT ![path] = InodeOf(path)]
            /\ files' = [files EXCEPT ![InodeOf(path)] = << >>]
            /\ last_index' = [last_index EXCEPT ![p] = 1]
            /\ result' = result
            /\ pc' = [pc EXCEPT ![p] = Dispatch(cmd[p], 1).pc]
            /\ loc' = [loc EXCEPT ![p] = Dispatch(cmd[p], 1).loc]
       ELSE /\ UNCHANGED <<dir, files>>
            /\ IF CheckResult(Store) = "ok"
               THEN /\ last_index' = [last_index EXCEPT ![p] = Len(Lines(Store)) + 1]
                    /\ result' = result
                    /\ pc' = [pc EXCEPT ![p] = Dispatch(cmd[p], Len(Lines(Store)) + 1).pc]
                    /\ loc' = [loc EXCEPT ![p] = Dispatch(cmd[p], Len(Lines(Store)) + 1).loc]
               ELSE /\ result' = [result EXCEPT ![p] = CheckResult(Store)]
                    /\ pc' = [pc EXCEPT ![p] = "done"]
                    /\ UNCHANGED <<last_index, loc>>
    /\ UNCHANGED <<path, cmd, rdr, wtr, pre, hist, died>>

\* list_todos: every record is read and printed.
list_todos(p) ==
    /\ pc[p] = "list"
    /\ result' = [result EXCEPT ![p] =
                    IF dir[path] = 0 THEN "err_io"
                    ELSE IF WellFormed(Store) THEN "ok" ELSE "err_csv"]
    /\ pc' = [pc EXCEPT ![p] = "done"]
    /\ UNCHANGED <<path, dir, files, cmd, last_index, loc, rdr, wtr, pre, hist, died>>

\* Commands::Test: main returns Ok(()).
test_exit(p) ==
    /\ pc[p] = "exit"
    /\ result' = [result EXCEPT ![p] = "ok"]
    /\ pc' = [pc EXCEPT ![p] = "done"]
    /\ UNCHANGED <<path, dir, files, cmd, last_index, loc, rdr, wtr, pre, hist, died>>

\* ----------------------------------------------------------- add_records

\* The file is opened for appending and wrapped in a csv writer.
add_records_open(p) ==
    /\ pc[p] = "add_open"
    /\ IF dir[path] = 0
       THEN /\ result' = [result EXCEPT ![p] = "err_io"]
            /\ pc' = [pc EXCEPT ![p] = "done"]
            /\ wtr' = wtr
       ELSE /\ wtr' = [wtr EXCEPT ![p] =
                         [open |-> TRUE, ino |-> dir[path], pos |-> 0,
                          buf |-> << >>, append |-> TRUE]]
            /\ pc' = [pc EXCEPT ![p] = "add_loop"]
            /\ result' = result
    /\ UNCHANGED <<path, dir, files, cmd, last_index, loc, rdr, pre, hist, died>>

\* A mutant of NewRecord: the new records are numbered from one past `last`.
NewRecord_OffByOne(last, action) == Record(last + 1, action, FALSE)

\* The record the loop builds for one action.
NewRecord(last, action) == Record(last, action, FALSE)

\* One turn of the loop: the next action is serialized with index `last`.
add_records_serialize(p) ==
    /\ pc[p] = "add_loop"
    /\ loc[p].n <= Len(cmd[p].names)
    /\ LET put == WriterPut(wtr[p], files,
                            Serialize(NewRecord(loc[p].last, cmd[p].names[loc[p].n])))
       IN /\ wtr' = [wtr EXCEPT ![p] = put.w]
          /\ files' = put.files
    /\ loc' = [loc EXCEPT ![p].last = @ + 1, ![p].n = @ + 1]
    /\ UNCHANGED <<path, dir, pc, cmd, result, last_index, rdr, pre, hist, died>>

\* return Ok(()): the writer is dropped, which flushes its buffer.
add_records_return(p) ==
    /\ pc[p] = "add_loop"
    /\ loc[p].n > Len(cmd[p].names)
    /\ LET fin == Flush(wtr[p], files)
           w == [wtr EXCEPT ![p] = NoWriter]
       IN /\ wtr' = w
          /\ files' = Reclaim(fin.files, dir, rdr, w)
    /\ result' = [result EXCEPT ![p] = "ok"]
    /\ pc' = [pc EXCEPT ![p] = "done"]
    /\ loc' = [loc EXCEPT ![p] = NoLocals]
    /\ UNCHANGED <<path, dir, cmd, last_index, rdr, pre, hist, died>>

\* -------------------------------------------------------------- file_map

\* i = 1, and the store is opened for reading.
file_map_open_reader(p) ==
    /\ pc[p] = "fm_open_r"
    /\ IF dir[path] = 0
       THEN /\ result' = [result EXCEPT ![p] = "err_io"]
            /\ pc' = [pc EXCEPT ![p] = "done"]
            /\ loc' = [loc EXCEPT ![p] = NoLocals]
            /\ rdr' = rdr
       ELSE /\ rdr' = [rdr EXCEPT ![p] =
                         [open |-> TRUE, ino |-> dir[path], pos |-> 0,
                          buf |-> << >>, eof |-> FALSE]]
            /\ loc' = [loc EXCEPT ![p].i = 1]
            /\ pc' = [pc EXCEPT ![p] = "fm_open_w"]
            /\ result' = result
    /\ UNCHANGED <<path, dir, files, cmd, last_index, wtr, pre, hist, died>>

\* A mutant of OpenAux: the writer is opened on the store itself.
OpenAux_Store(d) == InodeOf(path)

\* The inode OpenOptions::new().create(true).write(true).open(aux) yields: the
\* file of that name as it is, or a new empty one.
OpenAux(d) == InodeOf(AuxPath(path))

\* aux.csv is opened for writing, created when missing, and wrapped in a csv
\* writer.
file_map_open_writer(p) ==
    /\ pc[p] = "fm_open_w"
    /\ dir' = [dir EXCEPT ![AuxPath(path)] = OpenAux(dir)]
    /\ wtr' = [wtr EXCEPT ![p] =
                 [open |-> TRUE, ino |-> OpenAux(dir), pos |-> 0,
                  buf |-> << >>, append |-> FALSE]]
    /\ pc' = [pc EXCEPT ![p] = "fm_loop"]
    /\ UNCHANGED <<path, files, cmd, result, last_index, loc, rdr, pre, hist, died>>

\* The reader needs more bytes for its next record: it reads from the store.
file_map_fill(p) ==
    /\ pc[p] = "fm_loop"
    /\ ~HasLine(rdr[p]) /\ ~rdr[p].eof
    /\ rdr' = [rdr EXCEPT ![p] = Fill(@, files)]
    /\ UNCHANGED <<path, dir, files, pc, cmd, result, last_index, loc, wtr, pre, hist, died>>

\* Mutants of Selected: the record is looked up by the output counter, by its
\* index counted from 0, and by its index whenever indexes are given.
Selected_ByCounter(l, r) == l.all \/ l.i \in l.indexes
Selected_ZeroBased(l, r) == l.all \/ (r.index - 1) \in l.indexes
Selected_IndexesFirst(l, r) == IF l.indexes # {} THEN r.index \in l.indexes ELSE l.all

\* Whether the loop's record is selected: all, or indexes.remove(&record.index).
Selected(l, r) == l.all \/ r.index \in l.indexes

\* A mutant of Output: a record that is not selected is written as it was read.
Output_KeepsIndex(l, r) ==
    IF Selected(l, r) THEN Transform(l.f, l.i, r)
    ELSE { Record(r.index, r.action, r.done) }

\* What one turn of the loop serializes for record r: the transform's record
\* when r is selected (nothing when the transform returns None), and r with
\* index i otherwise.
Output(l, r) ==
    IF Selected(l, r) THEN Transform(l.f, l.i, r)
    ELSE { Record(l.i, r.action, r.done) }

\* One turn of the loop over rdr.deserialize().
file_map_record(p) ==
    /\ pc[p] = "fm_loop"
    /\ HasLine(rdr[p])
    /\ LET nx == NextLine(rdr[p])
           l == loc[p]
       IN /\ rdr' = [rdr EXCEPT ![p] = nx.rdr]
          /\ IF nx.line = << >>
             THEN UNCHANGED <<files, wtr, loc, pc, result>>
             ELSE IF ~Decodes(nx.line)
             THEN /\ result' = [result EXCEPT ![p] = "err_csv"]
                  /\ pc' = [pc EXCEPT ![p] = "fm_ret"]
                  /\ UNCHANGED <<files, wtr, loc>>
             ELSE LET r == Deserialize(nx.line)
                      out == Output(l, r)
                      put == IF out = {} THEN [w |-> wtr[p], files |-> files]
                             ELSE WriterPut(wtr[p], files,
                                            Serialize(CHOOSE x \in out : TRUE))
                  IN /\ wtr' = [wtr EXCEPT ![p] = put.w]
                     /\ files' = put.files
                     /\ loc' = [loc EXCEPT
                                  ![p].indexes = IF l.all THEN @ ELSE @ \ {r.index},
                                  ![p].i = IF out = {} THEN @ ELSE @ + 1]
                     /\ UNCHANGED <<pc, result>>
    /\ UNCHANGED <<path, dir, cmd, last_index, pre, hist, died>>

\* rename(from, to), which needs `from` to exist: the name `to` now refers to
\* the file `from` referred to, and the name `from` is gone.  The file `to`
\* referred to before stays with those that have it open.  To keep a name's
\* file at that name's number, the renamed file takes the number of `to`, and the
\* file that lost the name, when it is still open, takes a free one; the open
\* handles follow their files.
Rename(d, fl, r, w, from, to) ==
    IF from = to THEN [dir |-> d, files |-> fl, rdr |-> r, wtr |-> w]
    ELSE LET old == InodeOf(to)
             new == InodeOf(from)
             held == d[to] # 0 /\ old \in ({ r[q].ino : q \in Procs } \cup { w[q].ino : q \in Procs })
             orphan == FreshInode(d, r, w)
             to_new(i) == IF i = new THEN old ELSE IF i = old /\ held THEN orphan ELSE i
             d2 == [d EXCEPT ![from] = 0, ![to] = old]
             r2 == [ q \in Procs |-> [r[q] EXCEPT !.ino = to_new(@)] ]
             w2 == [ q \in Procs |-> [w[q] EXCEPT !.ino = to_new(@)] ]
             fl2 == [ i \in Inodes |->
                        IF i = old THEN fl[new]
                        ELSE IF held /\ i = orphan THEN fl[old]
                        ELSE IF i = new THEN << >>
                        ELSE fl[i] ]
         IN [dir |-> d2, files |-> Reclaim(fl2, d2, r2, w2), rdr |-> r2, wtr |-> w2]

\* After the loop: rename(aux, path).
file_map_rename(p) ==
    /\ pc[p] = "fm_loop"
    /\ AtEnd(rdr[p])
    /\ IF dir[AuxPath(path)] = 0
       THEN /\ result' = [result EXCEPT ![p] = "err_io"]
            /\ UNCHANGED <<dir, files, rdr, wtr>>
       ELSE LET rn == Rename(dir, files, rdr, wtr, AuxPath(path), path)
            IN /\ dir' = rn.dir
               /\ files' = rn.files
               /\ rdr' = rn.rdr
               /\ wtr' = rn.wtr
               /\ result' = [result EXCEPT ![p] = "ok"]
    /\ pc' = [pc EXCEPT ![p] = "fm_ret"]
    /\ UNCHANGED <<path, cmd, last_index, loc, pre, hist, died>>

\* file_map returns: its locals are dropped, the writer first (which flushes its
\* buffer to its file), then the reader.
file_map_return(p) ==
    /\ pc[p] = "fm_ret"
    /\ LET fin == Flush(wtr[p], files)
           w == [wtr EXCEPT ![p] = NoWriter]
           r == [rdr EXCEPT ![p] = NoReader]
       IN /\ wtr' = w
          /\ rdr' = r
          /\ files' = Reclaim(fin.files, dir, r, w)
    /\ pc' = [pc EXCEPT ![p] = "done"]
    /\ loc' = [loc EXCEPT ![p] = NoLocals]
    /\ UNCHANGED <<path, dir, cmd, result, last_index, pre, hist, died>>

\* ------------------------------------------------------------ the system

\* The statement the process executes next; the rename once file_map's loop is
\* over.
Where(p) == IF pc[p] = "fm_loop" /\ AtEnd(rdr[p]) THEN "fm_rename" ELSE pc[p]

\* The process is killed (or the machine stops): its handles are closed and
\* what its writer had buffered is lost.  The behaviours followed end there.
Crash(p) ==
    /\ pc[p] \notin {"idle", "done", "dead"}
    /\ died' = [died EXCEPT ![p] = Where(p)]
    /\ LET w == [wtr EXCEPT ![p] = NoWriter]
           r == [rdr EXCEPT ![p] = NoReader]
       IN /\ wtr' = w
          /\ rdr' = r
          /\ files' = Reclaim(files, dir, r, w)
    /\ pc' = [pc EXCEPT ![p] = "dead"]
    /\ result' = [result EXCEPT ![p] = "crash"]
    /\ loc' = [loc EXCEPT ![p] = NoLocals]
    /\ UNCHANGED <<path, dir, cmd, last_index, pre, hist>>

\* One step of the run of a rm, done, undo or reset command: the check, or a
\* step of file_map.
Rewrite(p) ==
    \/ check_file_get_last(p)
    \/ file_map_open_reader(p)
    \/ file_map_open_writer(p)
    \/ file_map_fill(p)
    \/ file_map_record(p)
    \/ file_map_rename(p)
    \/ file_map_return(p)

\* One step of an invocation between its start and its exit.
Body(p) ==
    \/ Rewrite(p)
    \/ list_todos(p)
    \/ test_exit(p)
    \/ add_records_open(p)
    \/ add_records_serialize(p)
    \/ add_records_return(p)

\* One step of an invocation that has started.
Step(p) == main_exit(p) \/ Body(p)

\* One step of one invocation of the program, its start included.
Run(p) == (\E c \in Commands : Start(p, c)) \/ Step(p)

\* One invocation at a time, each running to its end.
Next == Run(1)

Spec == Init /\ [][Next]_vars

\* One invocation at a time, the last of which may be killed at any point.
NextCrash == Run(1) \/ Crash(1)

SpecCrash == Init /\ [][NextCrash]_vars

\* The command lines that build every store and begin every pair: add, reset,
\* and done and undo of an index set.
PairCommands == { c \in Commands : c.op \in {"add", "reset"} \/ (c.op \in {"done", "undo"} /\ ~c.all) }

\* One invocation at a time, where pairs of consecutive runs are followed.
NextPair ==
    \/ \E c \in PairCommands : Start(1, c)
    \/ Step(1)
    \/ \E c \in Commands : Again(1, c)

SpecPair == Init /\ [][NextPair]_vars

\* ------------------------------------------------------- I/O calls that fail

\* Whether serializing these bytes makes the writer write to its file: they do
\* not fit into what is left of its buffer.
Overflows(w, bytes) == Len(w.buf) + Len(bytes) > BufCap

\* A write of the writer's buffer fails, and so does every later one of the
\* run (the drop's included): what is buffered never reaches the file.
WriteFails(w) == [w EXCEPT !.buf = << >>]

\* The step at which p's run met its failure is remembered.
Failed(p, step) == died' = [died EXCEPT ![p] = step]

\* OpenOptions::open(&aux)? fails: file_map returns the error.
file_map_open_writer_fails(p) ==
    /\ pc[p] = "fm_open_w"
    /\ result' = [result EXCEPT ![p] = "err_io"]
    /\ pc' = [pc EXCEPT ![p] = "fm_ret"]
    /\ Failed(p, "open")
    /\ UNCHANGED <<path, dir, files, cmd, last_index, loc, rdr, wtr, pre, hist>>

\* The reader's read of the store fails: `result?` returns the error.
file_map_fill_fails(p) ==
    /\ pc[p] = "fm_loop"
    /\ ~HasLine(rdr[p]) /\ ~rdr[p].eof
    /\ result' = [result EXCEPT ![p] = "err_io"]
    /\ pc' = [pc EXCEPT ![p] = "fm_ret"]
    /\ Failed(p, "read")
    /\ UNCHANGED <<path, dir, files, cmd, last_index, loc, rdr, wtr, pre, hist>>

\* writer.serialize(..)? has to write the full buffer to aux.csv and the write
\* fails.
file_map_record_fails(p) ==
    /\ pc[p] = "fm_loop"
    /\ HasLine(rdr[p])
    /\ LET nx == NextLine(rdr[p])
       IN /\ nx.line # << >> /\ Decodes(nx.line)
          /\ LET out == Output(loc[p], Deserialize(nx.line))
             IN /\ out # {}
                /\ Overflows(wtr[p], Serialize(CHOOSE x \in out : TRUE))
          /\ rdr' = [rdr EXCEPT ![p] = nx.rdr]
    /\ wtr' = [wtr EXCEPT ![p] = WriteFails(@)]
    /\ result' = [result EXCEPT ![p] = "err_io"]
    /\ pc' = [pc EXCEPT ![p] = "fm_ret"]
    /\ Failed(p, "write")
    /\ UNCHANGED <<path, dir, files, cmd, last_index, loc, pre, hist>>

\* rename(aux, path)? fails.
file_map_rename_fails(p) ==
    /\ pc[p] = "fm_loop"
    /\ AtEnd(rdr[p])
    /\ result' = [result EXCEPT ![p] = "err_io"]
    /\ pc' = [pc EXCEPT ![p] = "fm_ret"]
    /\ Failed(p, "rename")
    /\ UNCHANGED <<path, dir, files, cmd, last_index, loc, rdr, wtr, pre, hist>>

\* file_map returns and the write of the dropped writer's buffer fails:
\* Writer::drop ignores the error, and what file_map returns stays.
file_map_return_fails(p) ==
    /\ pc[p] = "fm_ret"
    /\ wtr[p].buf # << >>
    /\ LET w == [wtr EXCEPT ![p] = NoWriter]
           r == [rdr EXCEPT ![p] = NoReader]
       IN /\ wtr' = w
          /\ rdr' = r
          /\ files' = Reclaim(files, dir, r, w)
    /\ pc' = [pc EXCEPT ![p] = "done"]
    /\ loc' = [loc EXCEPT ![p] = NoLocals]
    /\ Failed(p, "flush")
    /\ UNCHANGED <<path, dir, cmd, result, last_index, pre, hist>>

\* writer.serialize(..)? in add_records has to write the full buffer to the
\* store and the write fails: add_records returns the error.
add_records_serialize_fails(p) ==
    /\ pc[p] = "add_loop"
    /\ loc[p].n <= Len(cmd[p].names)
    /\ Overflows(wtr[p], Serialize(NewRecord(loc[p].last, cmd[p].names[loc[p].n])))
    /\ LET w == [wtr EXCEPT ![p] = NoWriter]
       IN /\ wtr' = w
          /\ files' = Reclaim(files, dir, rdr, w)
    /\ result' = [result EXCEPT ![p] = "err_io"]
    /\ pc' = [pc EXCEPT ![p] = "done"]
    /\ loc' = [loc EXCEPT ![p] = NoLocals]
    /\ Failed(p, "write")
    /\ UNCHANGED <<path, dir, cmd, last_index, rdr, pre, hist>>

\* add_records returns Ok(()) and the write of the dropped writer's buffer
\* fails: Writer::drop ignores the error.
add_records_return_fails(p) ==
    /\ pc[p] = "add_loop"
    /\ loc[p].n > Len(cmd[p].names)
    /\ wtr[p].buf # << >>
    /\ LET w == [wtr EXCEPT ![p] = NoWriter]
       IN /\ wtr' = w
          /\ files' = Reclaim(files, dir, rdr, w)
    /\ result' = [result EXCEPT ![p] = "ok"]
    /\ pc' = [pc EXCEPT ![p] = "done"]
    /\ loc' = [loc EXCEPT ![p] = NoLocals]
    /\ Failed(p, "flush")
    /\ UNCHANGED <<path, dir, cmd, last_index, rdr, pre, hist>>

\* One I/O call of the run fails.
Fault(p) ==
    \/ file_map_open_writer_fails(p)
    \/ file_map_fill_fails(p)
    \/ file_map_record_fails(p)
    \/ file_map_rename_fails(p)
    \/ file_map_return_fails(p)
    \/ add_records_serialize_fails(p)
    \/ add_records_return_fails(p)

\* A run in which nothing failed is over.
clean_exit(p) == died[p] = "none" /\ main_exit(p)

\* One invocation at a time; I/O calls of add_records and file_map may fail, and
\* the behaviours followed end with the run in which one did.
NextFault ==
    \/ \E c \in Commands : Start(1, c)
    \/ Body(1)
    \/ clean_exit(1)
    \/ Fault(1)

SpecFault == Init /\ [][NextFault]_vars

\* ------------------------------------------------- a store edited by hand

\* Lines a store edited by hand may hold.
MaxHandLines == 2

\* A line that does not decode: its index is no number.
BadLine == <<"x", ",", "a", ",">> \o FalseBytes \o <<"\n">>

HandLines == { Serialize(Record(i, <<"a">>, FALSE)) : i \in 1 .. MaxRecords } \cup {BadLine}

RECURSIVE Concat(_)
Concat(ls) == IF ls = << >> THEN << >> ELSE Head(ls) \o Concat(Tail(ls))

\* The contents of the store before the program is run: any lines in any order.
HandFiles == { Concat(ls) : ls \in UNION { [1 .. n -> HandLines] : n \in 0 .. MaxHandLines } }

\* There is no store, or the store holds what somebody put there.
InitHand ==
    /\ path = "todo_list.csv"
    /\ \/ /\ dir = [ n \in Names |-> 0 ]
          /\ files = [ i \in Inodes |-> << >> ]
       \/ /\ dir = [ n \in Names |-> IF n = "todo_list.csv" THEN InodeOf(n) ELSE 0 ]
          /\ \E data \in HandFiles :
                files = [ i \in Inodes |-> IF i = InodeOf("todo_list.csv") THEN data ELSE << >> ]
    /\ pc = [ p \in Procs |-> "idle" ]
    /\ cmd = [ p \in Procs |-> ListCmd ]
    /\ result = [ p \in Procs |-> "none" ]
    /\ last_index = [ p \in Procs |-> 0 ]
    /\ loc = [ p \in Procs |-> NoLocals ]
    /\ rdr = [ p \in Procs |-> NoReader ]
    /\ wtr = [ p \in Procs |-> NoWriter ]
    /\ pre = [ p \in Procs |-> << >> ]
    /\ hist = [ p \in Procs |-> NoHist ]
    /\ died = [ p \in Procs |-> "none" ]

\* One invocation on such a store, followed to its end.
NextHand == (\E c \in Commands : Start(1, c)) \/ Body(1)

SpecHand == InitHand /\ [][NextHand]_vars

\* --------------------------------------------- an aux.csv that is in the way

\* There is no store yet, and the store's directory holds a file aux.csv: left
\* by a rewrite that failed, or belonging to somebody else.
InitStale ==
    /\ path = "todo_list.csv"
    /\ dir = [ n \in Names |-> IF n = AuxPath(path) THEN InodeOf(n) ELSE 0 ]
    /\ \E data \in HandFiles :
          files = [ i \in Inodes |-> IF i = InodeOf(AuxPath(path)) THEN data ELSE << >> ]
    /\ pc = [ p \in Procs |-> "idle" ]
    /\ cmd = [ p \in Procs |-> ListCmd ]
    /\ result = [ p \in Procs |-> "none" ]
    /\ last_index = [ p \in Procs |-> 0 ]
    /\ loc = [ p \in Procs |-> NoLocals ]
    /\ rdr = [ p \in Procs |-> NoReader ]
    /\ wtr = [ p \in Procs |-> NoWriter ]
    /\ pre = [ p \in Procs |-> << >> ]
    /\ hist = [ p \in Procs |-> NoHist ]
    /\ died = [ p \in Procs |-> "none" ]

\* One invocation at a time, each running to its end, in such a directory.
SpecStale == InitStale /\ [][Next]_vars

\* ------------------------------------------------- two rewrites at a time

\* The bytes add_records appends for the first j texts of command c on a store
\* of n records.
Appended(c, n, j) == Concat([ k \in 1 .. j |-> Serialize(Record(n + k, c.names[k], FALSE)) ])

\* The command lines of the two users: rm and done of indexes a new store has.
RaceCommands ==
    { c \in Commands : c.op \in {"rm", "done"} /\ ~c.all /\ c.indexes \subseteq 1 .. MaxAdd }

\* The store is as one add command has made it.
InitRace ==
    /\ path = "todo_list.csv"
    /\ dir = [ n \in Names |-> IF n = "todo_list.csv" THEN InodeOf(n) ELSE 0 ]
    /\ \E ns \in NameLists :
          files = [ i \in Inodes |->
                      IF i = InodeOf("todo_list.csv")
                      THEN Appended(Cmd("add", ns, {}, FALSE), 0, Len(ns)) ELSE << >> ]
    /\ pc = [ p \in Procs |-> "idle" ]
    /\ cmd = [ p \in Procs |-> ListCmd ]
    /\ result = [ p \in Procs |-> "none" ]
    /\ last_index = [ p \in Procs |-> 0 ]
    /\ loc = [ p \in Procs |-> NoLocals ]
    /\ rdr = [ p \in Procs |-> NoReader ]
    /\ wtr = [ p \in Procs |-> NoWriter ]
    /\ pre = [ p \in Procs |-> << >> ]
    /\ hist = [ p \in Procs |-> NoHist ]
    /\ died = [ p \in Procs |-> "none" ]

\* Two invocations, one of each user, whose steps interleave in any order.
NextRace ==
    \E p \in Procs :
        \/ \E c \in RaceCommands : Start(p, c)
        \/ Rewrite(p)

SpecRace == InitRace /\ [][NextRace]_vars

\* ------------------------------------------------ a store named aux.csv

\* The user's store is a file named aux.csv (--file aux.csv); there is none
\* yet, or an empty one.
InitAux ==
    /\ path = "aux.csv"
    /\ dir \in { [ n \in Names |-> 0 ],
                 [ n \in Names |-> IF n = "aux.csv" THEN InodeOf(n) ELSE 0 ] }
    /\ files = [ i \in Inodes |-> << >> ]
    /\ pc = [ p \in Procs |-> "idle" ]
    /\ cmd = [ p \in Procs |-> ListCmd ]
    /\ result = [ p \in Procs |-> "none" ]
    /\ last_index = [ p \in Procs |-> 0 ]
    /\ loc = [ p \in Procs |-> NoLocals ]
    /\ rdr = [ p \in Procs |-> NoReader ]
    /\ wtr = [ p \in Procs |-> NoWriter ]
    /\ pre = [ p \in Procs |-> << >> ]
    /\ hist = [ p \in Procs |-> NoHist ]
    /\ died = [ p \in Procs |-> "none" ]

\* One invocation at a time, each running to its end, on that store.
SpecAux == InitAux /\ [][Next]_vars

\* ------------------------------------------------------------- the claims

\* The records of a store are numbered 1, 2, ..., N in file order.
Contiguous(data) ==
    /\ WellFormed(data)
    /\ \A k \in 1 .. Len(Records(data)) : Records(data)[k].index = k

\* The run of process p has returned Ok.
Completed(p) == pc[p] = "done" /\ result[p] = "ok"

\* The records of recs whose index is not in S, in their order.
Survivors(recs, S) == SelectSeq(recs, LAMBDA r : r.index \notin S)

\* The same records numbered from 1.
Renumbered(recs) == [ k \in 1 .. Len(recs) |-> [recs[k] EXCEPT !.index = k] ]

\* The records with the done flag of the selected ones set to d.
Marked(recs, S, all, d) ==
    [ k \in 1 .. Len(recs) |->
        IF all \/ recs[k].index \in S THEN [recs[k] EXCEPT !.done = d] ELSE recs[k] ]

\* C1: starting from an empty or absent store, after every completed add, rm,
\* done, undo or reset command (and between commands) the indexes of the store's
\* records in file order are exactly 1, 2, ..., N.
C1_Contiguity ==
    \A p \in {1} : pc[p] \in {"idle", "done"} => Contiguous(Store)

\* C1's case: an rm has dropped the first of three records and the two that
\* stay are numbered 1 and 2.
C1_Witness ==
    /\ Completed(1) /\ cmd[1].op = "rm" /\ 1 \in cmd[1].indexes
    /\ Len(Lines(pre[1])) = 3 /\ Len(Lines(Store)) = 2

\* The store a selective rewrite is to produce from the records recs.
Rewritten(recs, c) ==
    CASE c.op = "rm" -> Renumbered(Survivors(recs, c.indexes))
      [] c.op = "done" -> Marked(recs, c.indexes, c.all, TRUE)
      [] c.op = "undo" -> Marked(recs, c.indexes, c.all, FALSE)
      [] OTHER -> << >>

Rewrites == {"rm", "done", "undo", "reset"}

\* C4: rm S on a valid store of N records leaves exactly the records whose
\* index is not in S, in their order, texts and done flags as they were,
\* numbered 1..M with M = N - |S \cap 1..N|.
C4_RemoveClosesGaps ==
    \A p \in {1} :
        pc[p] = "done" /\ cmd[p].op = "rm" =>
            /\ result[p] = "ok"
            /\ Contiguous(Store)
            /\ Records(Store) = Renumbered(Survivors(Records(pre[p]), cmd[p].indexes))
            /\ Len(Records(Store)) =
                 Len(Records(pre[p]))
                   - Cardinality(cmd[p].indexes \cap (1 .. Len(Records(pre[p]))))

\* C4's case: the middle one of three records with different texts and flags
\* is removed, and the third is now the second.
C4_Witness ==
    /\ Completed(1) /\ cmd[1].op = "rm" /\ cmd[1].indexes = {2}
    /\ Len(Records(pre[1])) = 3
    /\ Records(pre[1])[1].action # Records(pre[1])[3].action
    /\ Records(pre[1])[3].done
    /\ Len(Records(Store)) = 2
    /\ Records(Store)[2] = [Records(pre[1])[3] EXCEPT !.index = 2]

\* C5: add with K texts on a valid store of N records leaves the N records as
\* they were and appends K records after them, in input order, with indexes
\* N+1..N+K, the texts given and done = false; N+1 is what the integrity check
\* of the same run returned.
C5_Append ==
    \A p \in {1} :
        pc[p] = "done" /\ cmd[p].op = "add" =>
            /\ result[p] = "ok"
            /\ Contiguous(Store)
            /\ SubSeq(Store, 1, Len(pre[p])) = pre[p]
            /\ last_index[p] = Len(Records(pre[p])) + 1
            /\ Records(Store) =
                 Records(pre[p])
                   \o [ k \in 1 .. Len(cmd[p].names) |->
                          Record(last_index[p] + k - 1, cmd[p].names[k], FALSE) ]

\* C5's case: two different texts are added to a store of one record.
C5_Witness ==
    /\ Completed(1) /\ cmd[1].op = "add"
    /\ Len(cmd[1].names) = 2 /\ cmd[1].names[1] # cmd[1].names[2]
    /\ Len(Records(pre[1])) = 1
    /\ Len(Records(Store)) = 3 /\ Records(Store)[3].index = 3

\* C6: done S (undo S) on a valid store sets the done flag to true (false) on
\* exactly the records whose index is in S, or on every record with -a, and
\* changes nothing else: count, order, texts, indexes, the other flags.
C6_MarkFrame ==
    \A p \in {1} :
        pc[p] = "done" /\ cmd[p].op \in {"done", "undo"} =>
            /\ result[p] = "ok"
            /\ Contiguous(Store)
            /\ Records(Store) =
                 Marked(Records(pre[p]), cmd[p].indexes, cmd[p].all, cmd[p].op = "done")

\* C6's case: done 2 on three records of which the first was done and the
\* third was not; only the second changes.
C6_Witness ==
    /\ Completed(1) /\ cmd[1].op = "done" /\ cmd[1].indexes = {2} /\ ~cmd[1].all
    /\ Len(Records(pre[1])) = 3
    /\ Records(pre[1])[1].done /\ ~Records(pre[1])[2].done /\ ~Records(pre[1])[3].done
    /\ Records(Store)[2].done /\ ~Records(Store)[3].done

\* C10: an rm, done or undo whose requested indexes are all absent from the
\* store (0, or greater than N) completes without error and leaves the store
\* exactly as it was.
C10_UnknownIndexNoOp ==
    \A p \in {1} :
        /\ pc[p] = "done" /\ cmd[p].op \in {"rm", "done", "undo"} /\ ~cmd[p].all
        /\ cmd[p].indexes \cap (1 .. Len(Records(pre[p]))) = {}
        => /\ result[p] = "ok"
           /\ Store = pre[p]
           /\ Records(Store) = Records(pre[p])

\* C10's case: rm 0 and 4 on a store of three records.
C10_Witness ==
    /\ Completed(1) /\ cmd[1].op = "rm" /\ cmd[1].indexes = {0, 4}
    /\ Len(Records(pre[1])) = 3 /\ Len(Records(Store)) = 3

\* The rewrite of process p has not come to its rename: it is before it, or it
\* was killed before it.
BeforeRename(p) ==
    \/ pc[p] \in {"fm_open_r", "fm_open_w", "fm_loop"}
    \/ pc[p] = "dead" /\ died[p] \in {"fm_open_r", "fm_open_w", "fm_loop", "fm_rename"}

\* The rename of process p's rewrite is done: it is about to return, or it
\* was killed there.
AfterRename(p) ==
    \/ pc[p] = "fm_ret" /\ result[p] = "ok"
    \/ pc[p] = "dead" /\ died[p] = "fm_ret"

\* C2: during a selective rewrite, at every step before the rename, and after
\* a crash before the rename, the store file's content at its path is what it
\* was when the command started.
C2_UntouchedBeforeRename ==
    \A p \in {1} :
        cmd[p].op \in Rewrites /\ BeforeRename(p) =>
            dir[path] # 0 /\ Store = pre[p]

\* C2's case: an rm of the first of three records is killed when the loop is
\* over and the rename is next; the temporary file holds what was flushed.
C2_Witness ==
    /\ pc[1] = "dead" /\ died[1] = "fm_rename"
    /\ cmd[1].op = "rm" /\ cmd[1].indexes = {1}
    /\ Len(Records(pre[1])) = 3
    /\ Content(dir, files, AuxPath(path)) # << >>

\* C3: in a selective rewrite every record of the pass is in the temporary
\* file before the rename is attempted, so that from the rename on (a crash
\* included) the store's path shows the complete new content.
C3_FlushedBeforeRename ==
    \A p \in {1} :
        /\ cmd[p].op \in Rewrites /\ Where(p) = "fm_rename" => wtr[p].buf = << >>
        /\ cmd[p].op \in Rewrites /\ AfterRename(p) =>
             /\ WellFormed(Store)
             /\ Records(Store) = Rewritten(Records(pre[p]), cmd[p])

\* A pair of runs of process p, the second of which has returned.
InPair(p, op1, op2) ==
    /\ pc[p] = "done"
    /\ hist[p].valid /\ hist[p].cmd.op = op1 /\ cmd[p].op = op2

\* The records among recs that the command selects.
SelectedBy(c, recs) == { k \in 1 .. Len(recs) : c.all \/ recs[k].index \in c.indexes }

\* C7 as stated: done S and then undo S gives back the store as it was before
\* the two commands.
C7_UndoInvertsDone ==
    \A p \in {1} :
        InPair(p, "done", "undo") =>
            result[p] = "ok" /\ Records(Store) = Records(hist[p].pre)

\* C7, amended: done S and then undo S leaves every selected record with done =
\* false and every other record as it was, texts, indexes and order kept; the
\* store is as before the two commands exactly when no selected record was done
\* before them.
C7_UndoAfterDone ==
    \A p \in {1} :
        InPair(p, "done", "undo") =>
            LET before == Records(hist[p].pre)
            IN /\ result[p] = "ok"
               /\ Contiguous(Store)
               /\ Records(Store) = Marked(before, cmd[p].indexes, cmd[p].all, FALSE)
               /\ (Records(Store) = before) <=>
                    (\A k \in SelectedBy(cmd[p], before) : ~before[k].done)

\* C7's case: done 1 2 and undo 1 2 on a store whose first record was done and
\* whose second was not: the first record does not get its flag back.
C7_Witness ==
    /\ InPair(1, "done", "undo") /\ result[1] = "ok"
    /\ cmd[1].indexes = {1, 2} /\ ~cmd[1].all
    /\ Len(Records(hist[1].pre)) = 3
    /\ Records(hist[1].pre)[1].done /\ ~Records(hist[1].pre)[2].done
    /\ Records(hist[1].pre)[3].done
    /\ ~Records(Store)[1].done /\ Records(Store)[3].done

\* C8: done (undo) of records that are all done (not done) already leaves the
\* store as it is, and done S (undo S) twice in a row gives the store that
\* once gives.
C8_MarkIdempotent ==
    \A p \in {1} :
        pc[p] = "done" /\ cmd[p].op \in {"done", "undo"} =>
            LET before == Records(pre[p])
            IN /\ (\A k \in SelectedBy(cmd[p], before) :
                      before[k].done = (cmd[p].op = "done"))
                    => result[p] = "ok" /\ Store = pre[p]
               /\ hist[p].valid /\ hist[p].cmd.op = cmd[p].op
                    => result[p] = "ok" /\ Store = pre[p]

\* C8's case: done 1 3 twice, where the first run changed the store.
C8_Witness ==
    /\ InPair(1, "done", "done") /\ result[1] = "ok"
    /\ cmd[1].indexes = {1, 3} /\ ~cmd[1].all
    /\ Len(Records(pre[1])) = 3
    /\ hist[1].changed
    /\ Store = pre[1]

\* C9: reset on any valid store, empty or not, ends with an empty store; the
\* next integrity check returns 1 and a following add numbers from 1.
C9_Reset ==
    \A p \in {1} :
        /\ pc[p] = "done" /\ cmd[p].op = "reset" =>
             result[p] = "ok" /\ dir[path] # 0 /\ Store = << >>
        /\ hist[p].valid /\ hist[p].cmd.op = "reset" /\ pc[p] # "check" =>
             last_index[p] = 1
        /\ InPair(p, "reset", "add") =>
             /\ result[p] = "ok"
             /\ Contiguous(Store)
             /\ Records(Store) =
                  [ k \in 1 .. Len(cmd[p].names) |-> Record(k, cmd[p].names[k], FALSE) ]

\* C9's case: a store that held records is reset and two texts are added.
C9_Witness ==
    /\ InPair(1, "reset", "add") /\ result[1] = "ok"
    /\ hist[1].changed
    /\ Len(cmd[1].names) = 2
    /\ Len(Records(Store)) = 2 /\ Records(Store)[1].index = 1

\* C11: on an existing file whose lines decode, check_file_get_last fails with
\* the index error exactly when the stored indexes in file order are not 1, 2,
\* ..., N, and returns N + 1 otherwise; on a missing file it creates an empty
\* file and returns 1.  In neither case does it change what a file holds.
C11_CheckResult ==
    [][ \A p \in {1} :
          pc[p] = "check" /\ pc'[p] # "check" =>
            IF dir[path] = 0
            THEN /\ dir'[path] # 0 /\ Store' = << >>
                 /\ result'[p] = "none" /\ last_index'[p] = 1
            ELSE /\ Store' = Store
                 /\ WellFormed(Store) =>
                      /\ (result'[p] = "err_index") <=> ~Contiguous(Store)
                      /\ Contiguous(Store) =>
                           /\ result'[p] = "none"
                           /\ last_index'[p] = Len(Records(Store)) + 1 ]_vars

\* C11's case: the check has refused a store whose indexes are 1, 3.
C11_Witness ==
    /\ pc[1] = "done" /\ result[1] = "err_index"
    /\ WellFormed(pre[1]) /\ Len(Records(pre[1])) = 2
    /\ Records(pre[1])[1].index = 1 /\ Records(pre[1])[2].index = 3

\* C12: when the indexes of the store are not 1..N in order, every command
\* fails with the index error, after the check and nothing else, and the store
\* and its directory are as they were.
C12_RefuseOnCorruption ==
    \A p \in {1} :
        pc[p] # "idle" /\ WellFormed(pre[p]) /\ ~Contiguous(pre[p]) =>
            /\ pc[p] \in {"check", "done"}
            /\ pc[p] = "done" => result[p] = "err_index"
            /\ dir[path] # 0 /\ Store = pre[p]
            /\ dir[AuxPath(path)] = 0

\* C12's case: a reset of a store whose indexes are 1, 3 has been refused.
C12_Witness ==
    /\ pc[1] = "done" /\ result[1] = "err_index" /\ cmd[1].op = "reset"
    /\ Len(Lines(pre[1])) = 2 /\ WellFormed(pre[1])
    /\ Records(pre[1])[1].index = 1 /\ Records(pre[1])[2].index = 3
    /\ Store = pre[1]

\* C13: when a read, decode or write step of a selective rewrite fails, the
\* command returns an error and the store, which was not renamed over, holds
\* at its path what it held when the command started.
C13_AbortLeavesOriginal ==
    \A p \in {1} :
        cmd[p].op \in Rewrites /\ died[p] # "none" /\ pc[p] \in {"fm_ret", "done"} =>
            /\ result[p] \notin {"none", "ok"}
            /\ dir[path] # 0 /\ Store = pre[p]

\* C14: once a selective rewrite that failed before or at its rename has
\* returned, there is no temporary file in the store's directory.
C14_TempCleanedUp ==
    \A p \in {1} :
        cmd[p].op \in Rewrites /\ pc[p] = "done" /\ result[p] \notin {"none", "ok"} =>
            dir[AuxPath(path)] = 0

\* C17: after an add of K texts in which a write failed, the store is what it
\* was followed by the first j of the new records, for some j in 0..K, numbered
\* from N + 1; its indexes are 1..N+j and the next integrity check succeeds.
C17_PartialAppend ==
    \A p \in {1} :
        cmd[p].op = "add" /\ died[p] # "none" /\ pc[p] = "done" =>
            /\ \E j \in 0 .. Len(cmd[p].names) :
                  Store = pre[p] \o Appended(cmd[p], Len(Records(pre[p])), j)
            /\ Contiguous(Store)
            /\ CheckResult(Store) = "ok"

\* C16: what a selective rewrite that returned Ok has committed is the records
\* written during its pass and nothing else, whatever the file at the temporary
\* path held before: the store decodes, and its records are those the command
\* is to produce.
C16_FreshTemp ==
    \A p \in {1} :
        cmd[p].op \in Rewrites /\ pc[p] = "done" /\ result[p] = "ok" =>
            /\ Contiguous(Store)
            /\ Records(Store) = Rewritten(Records(pre[p]), cmd[p])

\* What a rewrite of one of the two racing commands may have read: the store
\* at the start of either run, or what the other command makes of that.
RaceInputs ==
    { Records(pre[p]) : p \in Procs } \cup { Rewritten(Records(pre[p]), cmd[p]) : p \in Procs }

\* C15: when two selective rewrites of the same store have run at the same
\* time, in any interleaving, the store holds the complete output of one of
\* them: records that decode, numbered 1..N, which are what one of the two
\* commands makes of the store it found.
C15_RacingRewrites ==
    (\A p \in Procs : pc[p] = "done") =>
        /\ dir[path] # 0
        /\ Contiguous(Store)
        /\ \E p \in Procs : \E recs \in RaceInputs :
              Records(Store) = Rewritten(recs, cmd[p])

\* The run of process p is one of the read-only kind: no subcommand (list), or
\* any command up to the end of its integrity check.
ReadOnly(p) == pc[p] = "check" \/ (pc[p] # "idle" /\ cmd[p].op = "list")

\* C18: during and after the integrity check of any command, and during and
\* after a list, the store holds what it held when the command started, so all
\* the two may do is create the store, empty, when there was none; they touch no
\* other file.
C18_ReadOnly ==
    \A p \in {1} :
        ReadOnly(p) =>
            /\ Store = pre[p]
            /\ pc[p] # "check" => dir[path] # 0
            /\ dir[AuxPath(path)] = 0

\* C18's case: a store of three records, one of them done, has been listed.
C18_Witness ==
    /\ Completed(1) /\ cmd[1].op = "list"
    /\ Len(Records(Store)) = 3 /\ Records(Store)[2].done
    /\ Store = pre[1]

\* C19: done -a and undo -a give the store in which every record has the
\* target flag, whatever indexes are given with -a: none, present or absent ones.
C19_AllOverridesIndexes ==
    \A p \in {1} :
        pc[p] = "done" /\ cmd[p].op \in {"done", "undo"} /\ cmd[p].all =>
            /\ result[p] = "ok"
            /\ Contiguous(Store)
            /\ Records(Store) = Marked(Records(pre[p]), {}, TRUE, cmd[p].op = "done")

\* C19's case: done -a 1 4 on three records none of which was done.
C19_Witness ==
    /\ Completed(1) /\ cmd[1].op = "done" /\ cmd[1].all /\ cmd[1].indexes = {1, 4}
    /\ Len(Records(pre[1])) = 3
    /\ \A k \in 1 .. 3 : ~Records(pre[1])[k].done /\ Records(Store)[k].done

\* C20: whatever the store's path, the temporary file of a rewrite is another
\* file than the store: the writer of the pass is not on the file its reader
\* reads, the store holds its pre-command content until the rename, and what a
\* rewrite that returned Ok leaves is what the command is to produce.
C20_TempDistinct ==
    \A p \in {1} :
        cmd[p].op \in Rewrites =>
            /\ pc[p] \in {"fm_open_w", "fm_loop", "fm_ret"} => AuxPath(path) # path
            /\ wtr[p].open /\ rdr[p].open /\ pc[p] = "fm_loop" => wtr[p].ino # rdr[p].ino
            /\ pc[p] = "fm_loop" => Store = pre[p]
            /\ pc[p] = "done" /\ result[p] = "ok" =>
                 /\ Contiguous(Store)
                 /\ Records(Store) = Rewritten(Records(pre[p]), cmd[p])

====
